---- MODULE Spec2Model ----
(***************************************************************************)
(* Model of bot/src/web.rs: the client handle (Interface), the coordinator *)
(* loop (bot_thread) and the pool of thinker workers it spawns.            *)
(*                                                                         *)
(* The channels (webutil::channel, webutil::worker) and the algorithm      *)
(* state (AsyncBotState) are defined outside web.rs.  Channels are modelled*)
(* as unbounded FIFO queues whose send fails once the receiving end is     *)
(* gone and whose receive reports closure once the queue is empty and the  *)
(* sending end is gone.  The algorithm is an opaque object: every mutating *)
(* call (think, message, think_done) may change is_dead() either way.      *)
(***************************************************************************)
EXTENDS Integers, Sequences, FiniteSets, TLC

\* ---- bounds -------------------------------------------------------------
MaxThreads == 2
MaxTasks == 2
MaxCalls == 3

\* BotMsg variants (payloads are opaque to the plumbing)
BotMsg ==
  {"NextMove", "NewPiece", "Reset", "ForceAnalysisLine"}

VARIABLES
  handle,      \* "init" | "aborted" (launch panicked) | "live" | "dropped"
  threads,     \* options.threads
  dead,        \* Interface.dead
  sendCalls,   \* number of worker.send invocations made by the Interface
  failedSends, \* how many of them returned Err
  cmdQ,        \* command channel: Interface -> bot_thread (recv)
  outQ,        \* output channel: bot_thread (send) -> Interface
  polled,      \* Decisions poll_next_move has returned, in order
  lastPoll,    \* return value of the latest poll_next_move: -1 not yet, 0 None
  cpc,         \* bot_thread: "none" | "check" (line 150) | "select" (159) | "done"
  stateDead,   \* state.is_dead()
  doMove,      \* the state holds a move request that no Decision has answered yet
  emitted,     \* number of Decisions handed to send.send by state.think
  dispatched,  \* number of Thinkers handed to think_send.send
  taskQ,       \* task channel: think_send -> thinker_recv
  resQ,        \* result channel: result_send -> think_recv
  wst,         \* per pool worker: "idle" | "sent" | "computed" | "exit" | "panic"
  wtask,       \* per pool worker: the task it holds (0: none)
  acq,         \* per task: how many times a worker acquired it
  sent,        \* per task: how many Results were sent for it
  integ,       \* per task: how many times its Result reached state.think_done
  epoch,       \* number of Reset commands handed to state.message
  depoch,      \* per buffered Decision: the value of epoch when think produced it
  watch        \* the client's latest "Reset immediately followed by RequestMove":
               \* <<"off">> | <<"armed", clean>> after the Reset |
               \* <<"on", n, clean>> after the RequestMove, n the Resets sent so far

vars ==
  <<handle, threads, dead, sendCalls, failedSends, cmdQ, outQ, polled, lastPoll,
    cpc, stateDead, doMove, emitted, dispatched, taskQ, resQ,
    wst, wtask, acq, sent, integ, epoch, depoch, watch>>

clientVars ==
  <<handle, threads, dead, sendCalls, failedSends, polled, lastPoll, watch>>

coordVars ==
  <<cpc, stateDead, doMove, emitted, dispatched, integ, epoch, depoch>>

poolVars ==
  <<wst, wtask, acq, sent>>

Tasks ==
  1..MaxTasks

\* A Decision answers a move request, so there are at most MaxCalls of them.
Decisions ==
  1..MaxCalls

\* Number of entries of the command channel that are m.
CountIn(q, m) ==
  Cardinality({i \in DOMAIN q : q[i] = m})

\* ---- channels ------------------------------------------------------------
\* The Coordinator's ends of its channels live exactly as long as its loop.
CoordinatorAlive ==
  cpc \in {"check", "select"}

\* Worker::send of the Interface: Err once the receiving side is gone.
WorkerSendOk ==
  CoordinatorAlive

\* Receiver::recv on the command channel yields None: queue drained and the
\* client side dropped.
CmdClosed ==
  handle = "dropped" /\ cmdQ = <<>>

\* Receiver::recv on the task channel yields None: queue drained and think_send
\* dropped with the Coordinator.
TaskClosed ==
  cpc = "done" /\ taskQ = <<>>

\* Sender::send on the result channel: Err once think_recv is dropped.
ResultSendOk ==
  CoordinatorAlive

Init ==
  /\ handle = "init"
  /\ threads = 0
  /\ dead = FALSE
  /\ sendCalls = 0
  /\ failedSends = 0
  /\ cmdQ = <<>>
  /\ outQ = <<>>
  /\ polled = <<>>
  /\ lastPoll = -1
  /\ cpc = "none"
  /\ stateDead = FALSE
  /\ doMove = FALSE
  /\ emitted = 0
  /\ dispatched = 0
  /\ taskQ = <<>>
  /\ resQ = <<>>
  /\ wst = <<>>
  /\ wtask = <<>>
  /\ acq = [t \in Tasks |-> 0]
  /\ sent = [t \in Tasks |-> 0]
  /\ integ = [t \in Tasks |-> 0]
  /\ epoch = 0
  /\ depoch = [d \in Decisions |-> 0]
  /\ watch = <<"off">>

\* ---- Interface ------------------------------------------------------------
\* launch: panics on threads == 0, else starts bot_thread, which spawns
\* options.threads pool workers and builds the state before its loop.
launch_without_thread_check ==
  /\ handle = "init"
  /\ \E n \in 0..MaxThreads :
       /\ threads' = n
       /\ handle' = "live"
       /\ cpc' = "check"
       /\ wst' = [w \in 1..n |-> "idle"]
       /\ wtask' = [w \in 1..n |-> 0]
  /\ UNCHANGED <<dead, sendCalls, failedSends, cmdQ, outQ, polled, lastPoll, watch,
                 stateDead, doMove, emitted, dispatched, integ, epoch, depoch,
                 taskQ, resQ, acq, sent>>

launch ==
  /\ handle = "init"
  /\ \E n \in 0..MaxThreads :
       /\ threads' = n
       /\ IF n = 0
            THEN /\ handle' = "aborted"
                 /\ UNCHANGED <<cpc, wst, wtask>>
            ELSE /\ handle' = "live"
                 /\ cpc' = "check"
                 /\ wst' = [w \in 1..n |-> "idle"]
                 /\ wtask' = [w \in 1..n |-> 0]
  /\ UNCHANGED <<dead, sendCalls, failedSends, cmdQ, outQ, polled, lastPoll, watch,
                 stateDead, doMove, emitted, dispatched, integ, epoch, depoch,
                 taskQ, resQ, acq, sent>>

is_dead ==
  dead

\* Bookkeeping of the client's call pattern (no counterpart in the code): a
\* successfully sent Reset arms the watch, noting whether a move request or a
\* Decision was outstanding; a RequestMove sent right after it turns the watch
\* on with the number of Resets sent so far; any other send turns it off.
Watch(msg) ==
  CASE msg = "Reset" ->
         <<"armed", ~doMove /\ CountIn(cmdQ, "NextMove") = 0 /\ outQ = <<>> >>
    [] msg = "NextMove" /\ watch[1] = "armed" ->
         <<"on", epoch + CountIn(cmdQ, "Reset"), watch[2]>>
    [] msg = "NextMove" /\ watch[1] # "armed" -> watch
    [] OTHER -> IF watch[1] = "armed" THEN <<"off">> ELSE watch

\* The shared body of the four sending methods:
\*   if self.worker.send(&msg).is_err() { self.dead = true; }
\* mutant: the flag is set when the send succeeds instead of when it fails
SendMsg_flag_on_success(msg) ==
  /\ handle = "live"
  /\ sendCalls < MaxCalls
  /\ sendCalls' = sendCalls + 1
  /\ IF WorkerSendOk
       THEN /\ cmdQ' = Append(cmdQ, msg)
            /\ dead' = TRUE
            /\ watch' = Watch(msg)
            /\ UNCHANGED failedSends
       ELSE /\ failedSends' = failedSends + 1
            /\ UNCHANGED <<cmdQ, dead, watch>>
  /\ UNCHANGED <<handle, threads, polled, lastPoll, outQ, taskQ, resQ>>
  /\ UNCHANGED <<coordVars, poolVars>>

SendMsg(msg) ==
  /\ handle = "live"
  /\ sendCalls < MaxCalls
  /\ sendCalls' = sendCalls + 1
  /\ IF WorkerSendOk
       THEN /\ cmdQ' = Append(cmdQ, msg)
            /\ watch' = Watch(msg)
            /\ UNCHANGED <<dead, failedSends>>
       ELSE /\ dead' = TRUE
            /\ failedSends' = failedSends + 1
            /\ UNCHANGED <<cmdQ, watch>>
  /\ UNCHANGED <<handle, threads, polled, lastPoll, outQ, taskQ, resQ>>
  /\ UNCHANGED <<coordVars, poolVars>>

request_next_move ==
  SendMsg("NextMove")

add_next_piece ==
  SendMsg("NewPiece")

\* mutant: reset also resets the handle's flag
reset_clears_dead ==
  /\ handle = "live"
  /\ sendCalls < MaxCalls
  /\ sendCalls' = sendCalls + 1
  /\ dead' = FALSE
  /\ IF WorkerSendOk
       THEN /\ cmdQ' = Append(cmdQ, "Reset")
            /\ watch' = Watch("Reset")
            /\ UNCHANGED failedSends
       ELSE /\ failedSends' = failedSends + 1
            /\ UNCHANGED <<cmdQ, watch>>
  /\ UNCHANGED <<handle, threads, polled, lastPoll, outQ, taskQ, resQ>>
  /\ UNCHANGED <<coordVars, poolVars>>

reset ==
  SendMsg("Reset")

force_analysis_line ==
  SendMsg("ForceAnalysisLine")

\* mutant: try_recv takes the newest buffered Decision
poll_next_move_newest ==
  /\ handle = "live"
  /\ IF outQ = <<>>
       THEN /\ lastPoll' = 0
            /\ UNCHANGED <<outQ, polled>>
       ELSE /\ lastPoll' = outQ[Len(outQ)]
            /\ polled' = Append(polled, outQ[Len(outQ)])
            /\ outQ' = SubSeq(outQ, 1, Len(outQ) - 1)
  /\ watch' = IF outQ # <<>> /\ watch[1] = "on" THEN <<"off">> ELSE watch
  /\ UNCHANGED <<handle, threads, dead, sendCalls, failedSends, cmdQ, taskQ, resQ>>
  /\ UNCHANGED <<coordVars, poolVars>>

\* mutant: an empty output channel is taken for a dead Coordinator
poll_next_move_flags_empty ==
  /\ handle = "live"
  /\ IF outQ = <<>>
       THEN /\ lastPoll' = 0
            /\ dead' = TRUE
            /\ UNCHANGED <<outQ, polled>>
       ELSE /\ lastPoll' = Head(outQ)
            /\ polled' = Append(polled, Head(outQ))
            /\ outQ' = Tail(outQ)
            /\ UNCHANGED dead
  /\ watch' = IF outQ # <<>> /\ watch[1] = "on" THEN <<"off">> ELSE watch
  /\ UNCHANGED <<handle, threads, sendCalls, failedSends, cmdQ, taskQ, resQ>>
  /\ UNCHANGED <<coordVars, poolVars>>

\* poll_next_move: self.worker.try_recv()
poll_next_move ==
  /\ handle = "live"
  /\ IF outQ = <<>>
       THEN /\ lastPoll' = 0
            /\ UNCHANGED <<outQ, polled>>
       ELSE /\ lastPoll' = Head(outQ)
            /\ polled' = Append(polled, Head(outQ))
            /\ outQ' = Tail(outQ)
  /\ watch' = IF outQ # <<>> /\ watch[1] = "on" THEN <<"off">> ELSE watch
  /\ UNCHANGED <<handle, threads, dead, sendCalls, failedSends, cmdQ, taskQ, resQ>>
  /\ UNCHANGED <<coordVars, poolVars>>

\* The Interface is dropped: the client side of the command channel closes.
drop_interface ==
  /\ handle = "live"
  /\ handle' = "dropped"
  /\ UNCHANGED <<threads, dead, sendCalls, failedSends, polled, lastPoll, watch,
                 cmdQ, outQ, taskQ, resQ>>
  /\ UNCHANGED <<coordVars, poolVars>>

\* ---- bot_thread -----------------------------------------------------------
\* mutant: the loop runs without looking at state.is_dead() (while true)
bot_thread_think_unguarded ==
  /\ cpc = "check"
  /\ \E k \in 0..(MaxTasks - dispatched), o \in 0..(IF doMove THEN 1 ELSE 0) :
       /\ taskQ' = taskQ \o [i \in 1..k |-> dispatched + i]
       /\ dispatched' = dispatched + k
       /\ emitted' = emitted + o
       /\ outQ' = IF o = 1 THEN Append(outQ, emitted + 1) ELSE outQ
       /\ doMove' = IF o = 1 THEN FALSE ELSE doMove
       /\ depoch' = IF o = 1 THEN [depoch EXCEPT ![emitted + 1] = epoch] ELSE depoch
  /\ stateDead' \in BOOLEAN
  /\ cpc' = "select"
  /\ UNCHANGED <<clientVars, poolVars, cmdQ, resQ, integ, epoch>>

\* Lines 150-154: the loop check passes, state.think runs, its Decision (the
\* FnOnce callback fires at most once, and only to answer a pending request)
\* goes to the output channel and its new Thinkers go to the task channel in
\* order; then the loop suspends in select.
bot_thread_think ==
  /\ cpc = "check"
  /\ ~stateDead
  /\ \E k \in 0..(MaxTasks - dispatched), o \in 0..(IF doMove THEN 1 ELSE 0) :
       /\ taskQ' = taskQ \o [i \in 1..k |-> dispatched + i]
       /\ dispatched' = dispatched + k
       /\ emitted' = emitted + o
       /\ outQ' = IF o = 1 THEN Append(outQ, emitted + 1) ELSE outQ
       /\ doMove' = IF o = 1 THEN FALSE ELSE doMove
       /\ depoch' = IF o = 1 THEN [depoch EXCEPT ![emitted + 1] = epoch] ELSE depoch
  /\ stateDead' \in BOOLEAN
  /\ cpc' = "select"
  /\ UNCHANGED <<clientVars, poolVars, cmdQ, resQ, integ, epoch>>

\* Line 150: the loop check fails; the async block ends and drops its channel ends.
bot_thread_exit ==
  /\ cpc = "check"
  /\ stateDead
  /\ cpc' = "done"
  /\ UNCHANGED <<clientVars, poolVars, cmdQ, outQ, taskQ, resQ,
                 stateDead, doMove, emitted, dispatched, integ, epoch, depoch>>

\* mutant: the command channel hands out its newest entry
bot_thread_message_newest ==
  /\ cpc = "select"
  /\ cmdQ # <<>>
  /\ cmdQ' = SubSeq(cmdQ, 1, Len(cmdQ) - 1)
  /\ doMove' = (doMove \/ cmdQ[Len(cmdQ)] = "NextMove")
  /\ epoch' = IF cmdQ[Len(cmdQ)] = "Reset" THEN epoch + 1 ELSE epoch
  /\ stateDead' \in BOOLEAN
  /\ cpc' = "check"
  /\ UNCHANGED <<clientVars, poolVars, outQ, taskQ, resQ, emitted, dispatched, integ, depoch>>

\* mutant: taking a Command also takes the Result the other branch had ready
bot_thread_message_drops_result ==
  /\ cpc = "select"
  /\ cmdQ # <<>>
  /\ cmdQ' = Tail(cmdQ)
  /\ doMove' = (doMove \/ Head(cmdQ) = "NextMove")
  /\ epoch' = IF Head(cmdQ) = "Reset" THEN epoch + 1 ELSE epoch
  /\ stateDead' \in BOOLEAN
  /\ resQ' = IF resQ = <<>> THEN resQ ELSE Tail(resQ)
  /\ cpc' = "check"
  /\ UNCHANGED <<clientVars, poolVars, outQ, taskQ, emitted, dispatched, integ, depoch>>

\* mutant: both receives are awaited (join) instead of raced
bot_thread_message_needs_result ==
  /\ cpc = "select"
  /\ cmdQ # <<>>
  /\ resQ # <<>>
  /\ cmdQ' = Tail(cmdQ)
  /\ doMove' = (doMove \/ Head(cmdQ) = "NextMove")
  /\ epoch' = IF Head(cmdQ) = "Reset" THEN epoch + 1 ELSE epoch
  /\ stateDead' \in BOOLEAN
  /\ cpc' = "check"
  /\ UNCHANGED <<clientVars, poolVars, outQ, taskQ, resQ, emitted, dispatched, integ, depoch>>

\* mutant: any Command ends the loop
bot_thread_message_breaks ==
  /\ cpc = "select"
  /\ cmdQ # <<>>
  /\ cmdQ' = Tail(cmdQ)
  /\ doMove' = (doMove \/ Head(cmdQ) = "NextMove")
  /\ epoch' = IF Head(cmdQ) = "Reset" THEN epoch + 1 ELSE epoch
  /\ stateDead' \in BOOLEAN
  /\ cpc' = "done"
  /\ UNCHANGED <<clientVars, poolVars, outQ, taskQ, resQ, emitted, dispatched, integ, depoch>>

\* mutant: a Reset throws the queued Thinkers away
bot_thread_message_cancels ==
  /\ cpc = "select"
  /\ cmdQ # <<>>
  /\ cmdQ' = Tail(cmdQ)
  /\ doMove' = (doMove \/ Head(cmdQ) = "NextMove")
  /\ epoch' = IF Head(cmdQ) = "Reset" THEN epoch + 1 ELSE epoch
  /\ stateDead' \in BOOLEAN
  /\ taskQ' = IF Head(cmdQ) = "Reset" THEN <<>> ELSE taskQ
  /\ cpc' = "check"
  /\ UNCHANGED <<clientVars, poolVars, outQ, resQ, emitted, dispatched, integ, depoch>>

\* Lines 160-161: the msg branch wins with Some(msg).
bot_thread_message ==
  /\ cpc = "select"
  /\ cmdQ # <<>>
  /\ cmdQ' = Tail(cmdQ)
  /\ doMove' = (doMove \/ Head(cmdQ) = "NextMove")
  /\ epoch' = IF Head(cmdQ) = "Reset" THEN epoch + 1 ELSE epoch
  /\ stateDead' \in BOOLEAN
  /\ cpc' = "check"
  /\ UNCHANGED <<clientVars, poolVars, outQ, taskQ, resQ, emitted, dispatched, integ, depoch>>

\* mutant: None is ignored and the loop goes round again
bot_thread_closed_continue ==
  /\ cpc = "select"
  /\ CmdClosed
  /\ cpc' = "check"
  /\ UNCHANGED <<clientVars, poolVars, cmdQ, outQ, taskQ, resQ,
                 stateDead, doMove, emitted, dispatched, integ, epoch, depoch>>

\* mutant: a biased select that looks at the result channel first
bot_thread_closed_after_results ==
  /\ cpc = "select"
  /\ CmdClosed
  /\ resQ = <<>>
  /\ cpc' = "done"
  /\ UNCHANGED <<clientVars, poolVars, cmdQ, outQ, taskQ, resQ,
                 stateDead, doMove, emitted, dispatched, integ, epoch, depoch>>

\* Lines 160-162: the msg branch wins with None: break.
bot_thread_closed ==
  /\ cpc = "select"
  /\ CmdClosed
  /\ cpc' = "done"
  /\ UNCHANGED <<clientVars, poolVars, cmdQ, outQ, taskQ, resQ,
                 stateDead, doMove, emitted, dispatched, integ, epoch, depoch>>

\* mutant: every buffered Result is integrated before the next think
bot_thread_think_done_drains ==
  /\ cpc = "select"
  /\ resQ # <<>>
  /\ integ' = [t \in Tasks |-> integ[t] + CountIn(resQ, t)]
  /\ resQ' = <<>>
  /\ stateDead' \in BOOLEAN
  /\ cpc' = "check"
  /\ UNCHANGED <<clientVars, poolVars, cmdQ, outQ, taskQ, doMove, emitted, dispatched,
                 epoch, depoch>>

\* Line 164: the think branch wins.
bot_thread_think_done ==
  /\ cpc = "select"
  /\ resQ # <<>>
  /\ integ' = [integ EXCEPT ![Head(resQ)] = @ + 1]
  /\ resQ' = Tail(resQ)
  /\ stateDead' \in BOOLEAN
  /\ cpc' = "check"
  /\ UNCHANGED <<clientVars, poolVars, cmdQ, outQ, taskQ, doMove, emitted, dispatched,
                 epoch, depoch>>

\* ---- pool workers (lines 139-145) and their thinker (lines 170-181) --------
\* mutant: the Thinker is read but left in the channel
pool_acquire_peek(w) ==
  /\ wst[w] = "idle"
  /\ taskQ # <<>>
  /\ wst' = [wst EXCEPT ![w] = "sent"]
  /\ wtask' = [wtask EXCEPT ![w] = Head(taskQ)]
  /\ acq' = [acq EXCEPT ![Head(taskQ)] = @ + 1]
  /\ UNCHANGED <<clientVars, coordVars, cmdQ, outQ, taskQ, resQ, sent>>

\* mutant: the next Thinker is received before the current Result came back
pool_acquire_while_busy(w) ==
  /\ wst[w] \in {"idle", "sent"}
  /\ taskQ # <<>>
  /\ wst' = [wst EXCEPT ![w] = "sent"]
  /\ wtask' = [wtask EXCEPT ![w] = Head(taskQ)]
  /\ acq' = [acq EXCEPT ![Head(taskQ)] = @ + 1]
  /\ taskQ' = Tail(taskQ)
  /\ UNCHANGED <<clientVars, coordVars, cmdQ, outQ, resQ, sent>>

\* Lines 141-142: a Thinker is received and passed on to the worker's thinker.
pool_acquire(w) ==
  /\ wst[w] = "idle"
  /\ taskQ # <<>>
  /\ wst' = [wst EXCEPT ![w] = "sent"]
  /\ wtask' = [wtask EXCEPT ![w] = Head(taskQ)]
  /\ acq' = [acq EXCEPT ![Head(taskQ)] = @ + 1]
  /\ taskQ' = Tail(taskQ)
  /\ UNCHANGED <<clientVars, coordVars, cmdQ, outQ, resQ, sent>>

\* Lines 177-178: the thinker runs v.think() and sends the ThinkResult back.
thinker(w) ==
  /\ wst[w] = "sent"
  /\ wst' = [wst EXCEPT ![w] = "computed"]
  /\ UNCHANGED <<clientVars, coordVars, cmdQ, outQ, taskQ, resQ, wtask, acq, sent>>

\* mutant: the ThinkResult is received but never sent on
pool_deliver_drops(w) ==
  /\ wst[w] = "computed"
  /\ wst' = [wst EXCEPT ![w] = "idle"]
  /\ wtask' = [wtask EXCEPT ![w] = 0]
  /\ UNCHANGED <<clientVars, coordVars, cmdQ, outQ, taskQ, resQ, acq, sent>>

\* Line 143: result_send.send(think_worker.recv().await).ok().unwrap()
pool_deliver(w) ==
  /\ wst[w] = "computed"
  /\ IF ResultSendOk
       THEN /\ resQ' = Append(resQ, wtask[w])
            /\ sent' = [sent EXCEPT ![wtask[w]] = @ + 1]
            /\ wst' = [wst EXCEPT ![w] = "idle"]
            /\ wtask' = [wtask EXCEPT ![w] = 0]
       ELSE /\ wst' = [wst EXCEPT ![w] = "panic"]
            /\ UNCHANGED <<resQ, sent, wtask>>
  /\ UNCHANGED <<clientVars, coordVars, cmdQ, outQ, taskQ, acq>>

\* mutant: the worker leaves as soon as the channel is empty (try_recv)
pool_exit_on_empty(w) ==
  /\ wst[w] = "idle"
  /\ taskQ = <<>>
  /\ wst' = [wst EXCEPT ![w] = "exit"]
  /\ UNCHANGED <<clientVars, coordVars, cmdQ, outQ, taskQ, resQ, wtask, acq, sent>>

\* Line 141: thinker_recv.recv() yields None; the while-let loop ends.
pool_exit(w) ==
  /\ wst[w] = "idle"
  /\ TaskClosed
  /\ wst' = [wst EXCEPT ![w] = "exit"]
  /\ UNCHANGED <<clientVars, coordVars, cmdQ, outQ, taskQ, resQ, wtask, acq, sent>>

Workers ==
  DOMAIN wst

Next ==
  \/ launch
  \/ request_next_move
  \/ add_next_piece
  \/ reset
  \/ force_analysis_line
  \/ poll_next_move
  \/ drop_interface
  \/ bot_thread_think
  \/ bot_thread_exit
  \/ bot_thread_message
  \/ bot_thread_closed
  \/ bot_thread_think_done
  \/ \E w \in Workers : pool_acquire(w)
  \/ \E w \in Workers : thinker(w)
  \/ \E w \in Workers : pool_deliver(w)
  \/ \E w \in Workers : pool_exit(w)

Spec ==
  Init /\ [][Next]_vars

\* The select picks among the ready branches pseudo-randomly, so a branch that
\* is ready again and again is eventually taken (strong fairness); every other
\* step is a spawned task that runs once it can (weak fairness).
FairSpec ==
  /\ Spec
  /\ WF_vars(bot_thread_think)
  /\ WF_vars(bot_thread_exit)
  /\ SF_vars(bot_thread_message)
  /\ SF_vars(bot_thread_closed)
  /\ SF_vars(bot_thread_think_done)
  /\ \A w \in 1..MaxThreads :
       /\ WF_vars(w \in Workers /\ pool_acquire(w))
       /\ WF_vars(w \in Workers /\ thinker(w))
       /\ WF_vars(w \in Workers /\ pool_deliver(w))
       /\ WF_vars(w \in Workers /\ pool_exit(w))

\* Receiver::recv on the result channel yields None: queue drained and every
\* result_send gone, the one bot_thread keeps (line 133) and the workers' clones.
ResultClosed ==
  resQ = <<>> /\ ~CoordinatorAlive /\ \A w \in Workers : wst[w] \in {"exit", "panic"}

RECURSIVE SumTo(_, _)
SumTo(f, n) ==
  IF n = 0 THEN 0 ELSE f[n] + SumTo(f, n - 1)

\* Commands handed to state.message so far.
Applied ==
  sendCalls - failedSends - Len(cmdQ)

\* Results handed to state.think_done so far.
Integrated ==
  SumTo(integ, MaxTasks)

\* Tasks a worker has received and not yet answered.
InExecution ==
  {t \in Tasks : acq[t] > sent[t]}

Stopped(w) ==
  wst[w] \in {"exit", "panic"}

Holding(w) ==
  wst[w] \in {"sent", "computed", "panic"}

\* ---- claims -----------------------------------------------------------------

\* C1: death is sticky: once is_dead() is true it is true after every later
\* step, whatever operation is called.
C1_DeathSticky ==
  [][is_dead => is_dead']_vars

\* C1 witness: the flag is set and a further sending call ran after it was set.
C1_Witness ==
  is_dead /\ failedSends >= 2

\* C2: launch with threads = 0 aborts with no Coordinator and no worker; a
\* running or finished Coordinator has exactly options.threads >= 1 workers and
\* that number never changes.
C2_LaunchThreads ==
  /\ [](handle = "aborted" => (threads = 0 /\ cpc = "none" /\ Workers = {}))
  /\ [](cpc # "none" => (threads >= 1 /\ Workers = 1..threads))
  /\ [][(handle = "init" /\ handle' # "init" /\ threads' = 0) => handle' = "aborted"]_vars
  /\ [][cpc # "none" => (threads' = threads /\ DOMAIN wst' = DOMAIN wst)]_vars

\* C2 witness: a launch with zero threads has aborted.
C2_Witness ==
  handle = "aborted" /\ threads = 0

\* C3 (as stated): once the flag is dead no later call attempts a send.
C3_NoSendAttemptOnceDead ==
  [][is_dead => sendCalls' = sendCalls]_vars

\* C3 (amended): once the flag is dead, a sending call still invokes
\* worker.send, the send fails, and the call changes nothing else: not the flag,
\* not the command channel, not the Coordinator, not the pool.
C3_DeadCallsFailWithoutEffect ==
  [][(is_dead /\ sendCalls' # sendCalls) =>
       /\ failedSends' = failedSends + 1
       /\ UNCHANGED <<handle, threads, dead, cmdQ, outQ, polled, lastPoll, watch,
                      taskQ, resQ, coordVars, poolVars>>]_vars

\* C3 witness: every sending call so far failed, and there were at least two.
C3_Witness ==
  is_dead /\ sendCalls >= 2 /\ failedSends = sendCalls

\* C4: whenever the Coordinator's state.is_dead() holds, the handle's is_dead()
\* returns true.
C4_DeadStateImpliesDeadHandle ==
  stateDead => is_dead

\* C5: poll_next_move is always callable on a live handle; it returns None on
\* an empty output channel and otherwise removes and returns the oldest
\* Decision; the Decisions returned so far followed by the buffered ones are
\* exactly the emitted ones in emission order; a poll changes neither the flag
\* nor the command channel.
C5_PollFifo ==
  /\ [](polled \o outQ = [i \in 1..emitted |-> i])
  /\ [](handle = "live" => ENABLED poll_next_move)
  /\ [][(lastPoll' # lastPoll \/ polled' # polled) =>
         /\ dead' = dead
         /\ cmdQ' = cmdQ
         /\ IF outQ = <<>>
              THEN lastPoll' = 0 /\ polled' = polled /\ outQ' = outQ
              ELSE /\ lastPoll' = Head(outQ)
                   /\ polled' = Append(polled, Head(outQ))
                   /\ outQ' = Tail(outQ)]_vars

\* C5 witness: two Decisions were polled and a later poll found the channel empty.
C5_Witness ==
  Len(polled) >= 2 /\ lastPoll = 0

\* C6: once the client side of the command channel is closed, the Coordinator
\* eventually terminates and every pool worker eventually stops for good.
C6_ClosureCascades ==
  (handle = "dropped") ~> (cpc = "done" /\ \A w \in Workers : Stopped(w))

\* C6 witness: after a drop the Coordinator is done and all workers stopped,
\* one of them having worked on a Task.
C6_Witness ==
  /\ handle = "dropped"
  /\ cpc = "done"
  /\ \A w \in Workers : Stopped(w)
  /\ \E t \in Tasks : acq[t] = 1

\* C7 (as stated): with the channel closed and drained, the iteration the
\* Coordinator is suspended in ends with its termination, also when Results
\* are ready; nothing is dispatched once it has terminated.
C7_TerminatesWithinOneIteration ==
  /\ [][(cpc = "select" /\ CmdClosed /\ cpc' # "select") => cpc' = "done"]_vars
  /\ [][cpc = "done" => dispatched' = dispatched]_vars

\* C7 (amended): with the channel closed and drained, the iteration ends with
\* termination unless a Result was ready and the select took it; with no Result
\* ready it ends with termination; nothing is dispatched once the Coordinator
\* has terminated.
C7_TerminatesUnlessResultTaken ==
  /\ [][(cpc = "select" /\ CmdClosed /\ cpc' # "select") =>
         \/ cpc' = "done"
         \/ /\ resQ # <<>>
            /\ resQ' = Tail(resQ)
            /\ integ' = [integ EXCEPT ![Head(resQ)] = @ + 1]
            /\ cpc' = "check"]_vars
  /\ [](cpc = "select" /\ CmdClosed => ENABLED bot_thread_closed)
  /\ [][cpc = "done" => (cpc' = "done" /\ dispatched' = dispatched)]_vars

\* C7 witness: the Coordinator left through the closure branch while a Result
\* was ready in the result channel.
C7_Witness ==
  cpc = "done" /\ ~stateDead /\ handle = "dropped" /\ resQ # <<>>

\* C8 (as stated): in a terminal state the Coordinator does not call think,
\* dispatch a Task, consume a Command or integrate a Result.
C8_NoWorkOnceTerminal ==
  [][stateDead =>
       /\ ~(cpc = "check" /\ cpc' = "select")
       /\ dispatched' = dispatched
       /\ Len(cmdQ') >= Len(cmdQ)
       /\ integ' = integ]_vars

\* C8 (amended): when the loop check finds the state terminal the Coordinator
\* can only exit, and from that check on think is not called, no Task is
\* dispatched, no Decision is emitted, no Command is consumed and no Result is
\* integrated.
C8_ExitAtLoopCheck ==
  /\ [](stateDead /\ cpc = "check" => ENABLED bot_thread_exit)
  /\ [][((stateDead /\ cpc = "check") \/ cpc = "done") =>
         /\ cpc' \in {cpc, "done"}
         /\ stateDead' = stateDead
         /\ dispatched' = dispatched
         /\ emitted' = emitted
         /\ Len(cmdQ') >= Len(cmdQ)
         /\ resQ' = resQ \/ Len(resQ') > Len(resQ)
         /\ integ' = integ]_vars

\* C8 witness: the Coordinator exited on a terminal state and left a Command
\* and a Result unconsumed.
C8_Witness ==
  cpc = "done" /\ stateDead /\ cmdQ # <<>> /\ resQ # <<>>

\* C9: every Task is acquired at most once and held by at most one worker; no
\* Result is sent for it while it is held, and once its worker has let go of it
\* exactly one Result has been sent; a Result is lost (the worker fails on the
\* send) only after the Coordinator has terminated.
C9_ExactlyOnce ==
  /\ \A t \in Tasks :
       /\ acq[t] <= 1
       /\ sent[t] <= 1
       /\ Cardinality({w \in Workers : wtask[w] = t}) <= acq[t]
       /\ (\E w \in Workers : wtask[w] = t) => sent[t] = 0
       /\ (acq[t] = 1 /\ \A w \in Workers : wtask[w] # t) => sent[t] = 1
       /\ acq[t] = 0 => sent[t] = 0
  /\ \A w \in Workers : (wtask[w] # 0) = Holding(w)
  /\ \A w \in Workers : wst[w] = "panic" => cpc = "done"

\* C9 witness: the Result of Task 1 was sent while another Task is held.
C9_Witness ==
  threads >= 2 /\ sent[1] = 1 /\ \E w \in Workers : wtask[w] = 2

CoordStep ==
  bot_thread_message \/ bot_thread_closed \/ bot_thread_think_done

PoolStep ==
  \E w \in Workers : pool_acquire(w) \/ thinker(w) \/ pool_deliver(w)

\* C10: while the Coordinator is suspended in its select, a pending Command, a
\* closed command channel or a pending Result enables a branch of the select;
\* a held or acquirable Task enables a pool step; and there is at least one
\* worker and none has left, so no dispatched Task is stranded.
C10_NoDeadlock ==
  cpc = "select" =>
    /\ (cmdQ # <<>> \/ CmdClosed \/ resQ # <<>>) => ENABLED CoordStep
    /\ (taskQ # <<>> \/ \E w \in Workers : wtask[w] # 0) => ENABLED PoolStep
    /\ Workers # {}
    /\ \A w \in Workers : ~Stopped(w)

\* C10 witness: the Coordinator waits with nothing to receive yet while Tasks
\* are queued for an idle worker.
C10_Witness ==
  /\ cpc = "select"
  /\ cmdQ = <<>> /\ ~CmdClosed /\ resQ = <<>>
  /\ taskQ # <<>>
  /\ \E w \in Workers : wst[w] = "idle"

\* Commands leave the command channel one at a time from its head, each into
\* state.message, and enter it at its tail; a step that takes a Result leaves
\* the command channel alone.
CommandsInSendOrder ==
  /\ [][\/ cmdQ' = cmdQ
        \/ \E m \in BotMsg : cmdQ' = Append(cmdQ, m)
        \/ /\ cmdQ # <<>> /\ cmdQ' = Tail(cmdQ)
           /\ cpc = "select" /\ cpc' = "check"
           /\ epoch' = epoch + (IF Head(cmdQ) = "Reset" THEN 1 ELSE 0)
           /\ (Head(cmdQ) = "NextMove" => doMove')]_vars
  /\ [][(resQ # <<>> /\ resQ' = Tail(resQ)) => cmdQ' = cmdQ]_vars

\* C11 (as stated): commands are applied in send order, and after a Reset
\* immediately followed by a RequestMove the next Decision the client receives
\* was produced after that Reset was applied.
C11_NextDecisionAfterReset ==
  /\ CommandsInSendOrder
  /\ [][(polled' # polled /\ watch[1] = "on") => depoch[Head(outQ)] >= watch[2]]_vars

\* C11 (amended): commands are applied in send order; if no move request was
\* outstanding and no Decision was buffered when the Reset was sent, the next
\* Decision the client receives after the Reset and RequestMove was produced
\* after that Reset was applied.
C11_NextDecisionAfterResetWhenIdle ==
  /\ CommandsInSendOrder
  /\ [][(polled' # polled /\ watch[1] = "on" /\ watch[3]) =>
         depoch[Head(outQ)] >= watch[2]]_vars

\* C11 witness: after such a Reset and RequestMove a Decision produced after
\* the Reset is buffered for the client, and a Result has been integrated.
C11_Witness ==
  /\ watch[1] = "on" /\ watch[3]
  /\ outQ # <<>> /\ depoch[Head(outQ)] >= watch[2]
  /\ \E t \in Tasks : integ[t] = 1

\* C12: every Result sent is in the result channel or was handed to think_done,
\* never both and never twice; taking a Command leaves the result channel
\* alone; the Coordinator never waits on a closed result channel.
C12_ResultsIntegratedOnce ==
  /\ [](\A t \in Tasks : integ[t] <= 1 /\ sent[t] = CountIn(resQ, t) + integ[t])
  /\ [](cpc = "select" => ~ResultClosed)
  /\ [][Len(cmdQ') < Len(cmdQ) => (resQ' = resQ /\ integ' = integ)]_vars

\* C12 witness: Task 2's Result was integrated while Task 1's, sent later, waits.
C12_Witness ==
  integ[2] = 1 /\ integ[1] = 0 /\ resQ = <<1>>

C14_WorkersExitCleanly ==
  \A w \in Workers : wst[w] # "panic"

\* C15 (as stated): the Coordinator has terminated only if its command channel
\* reported closure.
C15_TerminatesOnlyOnClosure ==
  cpc = "done" => CmdClosed

\* C15 (amended): the Coordinator terminates exactly when the select's command
\* branch reports closure or the loop check finds the state dead; a select
\* step under closure that takes no Result terminates.
C15_TerminatesOnClosureOrDeath ==
  /\ [][(cpc # "done" /\ cpc' = "done") =>
         \/ cpc = "select" /\ CmdClosed
         \/ cpc = "check" /\ stateDead]_vars
  /\ [][(cpc = "select" /\ CmdClosed /\ cpc' # "select" /\ resQ' = resQ) =>
         cpc' = "done"]_vars
  /\ [][(cpc = "check" /\ stateDead /\ cpc' # "check") => cpc' = "done"]_vars

\* C15 witness: the Coordinator terminated on a dead state with the client
\* still connected.
C15_Witness ==
  cpc = "done" /\ stateDead /\ handle = "live"

\* C16: applying a Command leaves the task channel, the workers, their Tasks
\* and the result channel as they are; a Task leaves the task channel only
\* into a worker.
C16_NoCancellation ==
  /\ [][Len(cmdQ') < Len(cmdQ) =>
         UNCHANGED <<taskQ, resQ, wst, wtask, acq, sent, integ, dispatched>>]_vars
  /\ [][taskQ' # taskQ =>
         \/ taskQ' = taskQ \o [i \in 1..(dispatched' - dispatched) |-> dispatched + i]
         \/ /\ taskQ # <<>> /\ taskQ' = Tail(taskQ)
            /\ \E w \in Workers : wtask'[w] = Head(taskQ)]_vars

\* C16 witness: a Reset was just applied while a Task waits and another is held.
C16_Witness ==
  cpc = "check" /\ epoch >= 1 /\ taskQ # <<>> /\ \E w \in Workers : wtask[w] # 0

\* C17: think runs only at the loop check of a live state and puts its Decision
\* and its Tasks, in generation order, on their channels before the select; an
\* event is consumed only in the select, one per iteration, and the loop leaves
\* the select only by one event or by the closure notice.
C17_OneThinkOneEvent ==
  /\ [][(dispatched' # dispatched \/ emitted' # emitted \/ (cpc = "check" /\ cpc' = "select")) =>
         /\ cpc = "check" /\ cpc' = "select" /\ ~stateDead
         /\ taskQ' = taskQ \o [i \in 1..(dispatched' - dispatched) |-> dispatched + i]
         /\ outQ' = outQ \o [i \in 1..(emitted' - emitted) |-> emitted + i]
         /\ Applied' = Applied /\ Integrated' = Integrated]_vars
  /\ [][(Applied' # Applied \/ Integrated' # Integrated) =>
         /\ cpc = "select" /\ cpc' = "check"
         /\ (Applied' - Applied) + (Integrated' - Integrated) = 1
         /\ Applied' >= Applied /\ Integrated' >= Integrated]_vars
  /\ [][(cpc = "select" /\ cpc' # "select") =>
         \/ (Applied' - Applied) + (Integrated' - Integrated) = 1
         \/ cpc' = "done" /\ CmdClosed]_vars

\* C17 witness: one think has put two Tasks, in order, and a Decision on their
\* channels and the loop is suspended in the select.
C17_Witness ==
  cpc = "select" /\ taskQ = <<1, 2>> /\ outQ # <<>>

\* C18: the flag is dead only when the Coordinator has terminated, it changes
\* only in a failed send, and a poll leaves it alone.
C18_DeadImpliesTerminated ==
  /\ [](is_dead => cpc = "done")
  /\ [][dead' # dead => failedSends' = failedSends + 1]_vars
  /\ [][(polled' # polled \/ lastPoll' # lastPoll) => dead' = dead]_vars

\* C18 witness: the flag is dead, the Coordinator is gone and a poll has run.
C18_Witness ==
  is_dead /\ cpc = "done" /\ lastPoll = 0

\* C19: the Tasks in execution are exactly the ones the workers hold, one per
\* worker at most, so never more than options.threads; a dispatched Task not
\* yet received waits in the task channel.
C19_AtMostThreadsInExecution ==
  /\ Cardinality(InExecution) <= threads
  /\ InExecution = {wtask[w] : w \in Workers} \ {0}
  /\ \A t \in 1..dispatched : acq[t] = 0 => CountIn(taskQ, t) = 1

\* C19 witness: every worker holds a Task and one more waits in the channel.
C19_Witness ==
  threads >= 1 /\ Cardinality(InExecution) = threads /\ taskQ # <<>>

\* C20: while the Coordinator runs, every dispatched Task is in exactly one
\* place: the task channel, a worker, the result channel or integrated; so
\* the four counts add up to the number dispatched.
C20_TaskConservation ==
  CoordinatorAlive =>
    /\ dispatched = Len(taskQ) + Cardinality({w \in Workers : wtask[w] # 0})
                      + Len(resQ) + Integrated
    /\ \A t \in Tasks :
         CountIn(taskQ, t) + Cardinality({w \in Workers : wtask[w] = t})
           + CountIn(resQ, t) + integ[t] = (IF t <= dispatched THEN 1 ELSE 0)

\* C20 witness: of two dispatched Tasks one Result is integrated and one waits.
C20_Witness ==
  CoordinatorAlive /\ dispatched = 2 /\ Integrated = 1 /\ Len(resQ) = 1

====
